---- MODULE Spec2Model ----
(***************************************************************************)
(* State-machine model of wget-rs's download coordinator                   *)
(* (src/src/download.rs): HEAD probe, resume negotiation, the choice       *)
(* between the single-threaded and the parallel path, the range workers,   *)
(* the join loop and the merge of the chunk buffers into the output file.  *)
(*                                                                         *)
(* The remote resource is a fixed byte sequence; the byte at offset k is   *)
(* k+1, so that any reordering, duplication or loss of bytes is visible.   *)
(* The server is the environment: it may honour a Range header (206),      *)
(* ignore it (200 with the full body), reject it (416 when the offset is   *)
(* at or past the end), answer 500, or the request may fail to be sent.    *)
(* A response body is either delivered in full or its read fails; file     *)
(* creation, opening and writing may fail at any point.  Worker threads    *)
(* keep running after download_file has returned (they are detached when   *)
(* their JoinHandle is dropped).                                           *)
(***************************************************************************)
EXTENDS Integers, Sequences, FiniteSets, TLC

\* ---- bounds of the model ----
MaxSize == 5
MaxThreads == 2
MaxRead == 2

\* ---- program constants ----
MAX_CHUNK_SIZE == 104857600

None == -1
SendFailed == 0

VARIABLES
    remote,             \* the remote resource's bytes
    threads,            \* download_file's `threads` argument
    continue_download,  \* download_file's `continue_download` argument
    disk,               \* the output file: [exists, data]
    disk0,              \* the output file as it was when download_file was called
    pc,                 \* position of download_file
    result,             \* what download_file returned: "none", "ok", "err", "panic"
    accept_ranges,      \* Accept-Ranges header of the HEAD response
    total_size,         \* Content-Length of the HEAD response, 0 when absent
    probe,              \* the response check_resume_capability received
    resume_from,        \* Option<u64>: None or the resume offset
    actual_total_size,  \* second component of the negotiation's result
    mode,               \* "none", "single", "parallel"
    gets,               \* number of GET requests sent so far
    ranges,             \* the planned ranges, one per worker
    wstate,             \* the workers' positions in download_chunk
    wreq,               \* number of requests each worker has sent
    wstatus,            \* the status each worker's request was answered with
    chunk_data,         \* the chunk buffers (Arc<Mutex<Vec<u8>>>), one per worker
    progress,           \* position of the shared progress bar
    joined,             \* number of handles the join loop has consumed
    merged,             \* number of chunk buffers written to the output file
    body,               \* unread rest of the single-threaded response body
    error,              \* the error download_file returned, NoError if none
    head_status,        \* status of the HEAD response, None before the probe
    single_status,      \* status of download_single_threaded's response, None before it
    url,                \* download_file's `url` argument, a sequence of characters
    output,             \* download_file's `output` argument, Option<String>
    disposition,        \* Content-Disposition header the server sends, Option
    filename,           \* the output path download_file chose, Option
    hash,               \* main: args.hash
    verify_hash,        \* main: args.verify_hash, Option
    exit_code,          \* exit status of the process, None while it runs
    digests,            \* number of digests the hashing stage has computed
    hashed_path         \* the path main handed to the hashing stage, Option

vars == <<remote, threads, continue_download, disk, disk0, pc, result,
          accept_ranges, total_size, probe, resume_from, actual_total_size,
          mode, gets, ranges, wstate, wreq, wstatus, chunk_data, progress,
          joined, merged, body, error, head_status, single_status, url, output, disposition,
          filename, hash, verify_hash, exit_code, digests, hashed_path>>

\* what one invocation is given: the arguments and the server's header
invocation == <<url, output, disposition, hash, verify_hash>>

\* what main does after download_file has returned
main_state == <<exit_code, digests, hashed_path>>

\* ---- helpers ----
Min(a, b) == IF a < b THEN a ELSE b

\* the bytes of a resource (or of a local file) of n bytes
Pattern(n) == [k \in 1..n |-> k]

NoFile == [exists |-> FALSE, data |-> <<>>]
FileOf(s) == [exists |-> TRUE, data |-> s]

IsSuccess(status) == status >= 200 /\ status <= 299

\* get_file_size: None when the file does not exist
get_file_size(f) == IF f.exists THEN Len(f.data) ELSE None

\* Option<String>
NoneStr == [some |-> FALSE, v |-> <<>>]
Some(v) == [some |-> TRUE, v |-> v]

\* the errors download_file and download_chunk return (Box<dyn Error>)
Err(kind, cause, status) == [kind |-> kind, cause |-> cause, status |-> status]
NoError == Err("none", "none", None)
\* `?` on send(): the transport's own error
TransportError == Err("transport", "none", None)
\* "HTTP error: {status} - {reason}"
HttpError(status) == Err("http", "none", status)
\* "Unexpected status code: {status}"
UnexpectedStatus(status) == Err("unexpected_status", "none", status)
\* `?` on a file or body read/write
IoError == Err("io", "none", None)
\* "Chunk size {} exceeds maximum allowed size"
ChunkTooLargeError == Err("chunk_too_large", "none", None)
\* the join loop's Err: the wrapped error of the worker, or "thread panic"
ChunkFailed(e) == Err("chunk_failed", e.kind, e.status)
ThreadPanic == Err("thread_panic", "none", None)

\* ---- the server ----
\* statuses the server may answer to a GET; start = None when no Range header
ServerStatuses(start) ==
    {200, 500} \cup
    (IF start # None /\ start < Len(remote) THEN {206} ELSE {}) \cup
    (IF start # None /\ start >= Len(remote) THEN {416} ELSE {})

\* body of a response; start, end are inclusive offsets, end = None for `bytes=start-`
ServerBody(status, start, end) ==
    IF status = 206
    THEN SubSeq(remote, start + 1,
                IF end = None THEN Len(remote) ELSE Min(end, Len(remote) - 1) + 1)
    ELSE IF status = 200 THEN remote
    ELSE <<>>

\* Content-Length header value as the code parses it: unwrap_or(0) when absent
ContentLength(hasCL, bodyval) == IF hasCL THEN Len(bodyval) ELSE 0


\* ---- pure functions of download.rs ----

\* faulty variant of check_resume_capability: the 206 arm forgets to add start_pos
check_resume_capability_NoOffset(status, content_length, start_pos) ==
    IF status = SendFailed
    THEN [ok |-> FALSE, supports_resume |-> FALSE, total |-> 0]
    ELSE IF status = 206
    THEN [ok |-> TRUE, supports_resume |-> TRUE, total |-> content_length]
    ELSE IF status = 416
    THEN [ok |-> TRUE, supports_resume |-> FALSE, total |-> start_pos]
    ELSE IF IsSuccess(status)
    THEN [ok |-> TRUE, supports_resume |-> FALSE, total |-> content_length]
    ELSE [ok |-> FALSE, supports_resume |-> FALSE, total |-> 0]

\* check_resume_capability: [ok, supports_resume, total]; ok = FALSE is Err
check_resume_capability(status, content_length, start_pos) ==
    IF status = SendFailed
    THEN [ok |-> FALSE, supports_resume |-> FALSE, total |-> 0]
    ELSE IF status = 206
    THEN [ok |-> TRUE, supports_resume |-> TRUE, total |-> content_length + start_pos]
    ELSE IF status = 416
    THEN [ok |-> TRUE, supports_resume |-> FALSE, total |-> start_pos]
    ELSE IF IsSuccess(status)
    THEN [ok |-> TRUE, supports_resume |-> FALSE, total |-> content_length]
    ELSE [ok |-> FALSE, supports_resume |-> FALSE, total |-> 0]

\* faulty variant of Negotiate: `>` instead of `>=` in the already-complete test
Negotiate_StrictlyLarger(r, existing_size, head_total) ==
    IF r.ok
    THEN IF r.supports_resume
         THEN [kind |-> "resume", resume_from |-> existing_size, total |-> r.total]
         ELSE IF existing_size > r.total
         THEN [kind |-> "complete", resume_from |-> None, total |-> r.total]
         ELSE [kind |-> "restart", resume_from |-> None, total |-> r.total]
    ELSE [kind |-> "restart", resume_from |-> None, total |-> head_total]

\* the match on check_resume_capability's result in download_file:
\* "resume", "complete" (early return Ok) or "restart"
Negotiate(r, existing_size, head_total) ==
    IF r.ok
    THEN IF r.supports_resume
         THEN [kind |-> "resume", resume_from |-> existing_size, total |-> r.total]
         ELSE IF existing_size >= r.total
         THEN [kind |-> "complete", resume_from |-> None, total |-> r.total]
         ELSE [kind |-> "restart", resume_from |-> None, total |-> r.total]
    ELSE [kind |-> "restart", resume_from |-> None, total |-> head_total]

\* faulty variant of supports_range_requests: any Accept-Ranges value counts
supports_range_requests_AnyValue(ar) == ar # "absent"

supports_range_requests(ar) == ar = "bytes"

FinalTotalSize(actual, head_total) == IF actual > 0 THEN actual ELSE head_total

\* faulty variant of Strategy: a resumed job is not kept off the parallel path
Strategy_ParallelResume(final, ar, resume, nthreads) ==
    IF final = 0 \/ (~supports_range_requests(ar) /\ resume = None) \/ nthreads = 1
    THEN "single"
    ELSE IF nthreads = 0
    THEN "panic"
    ELSE IF final \div nthreads = 0
    THEN "single"
    ELSE "parallel"

\* the strategy download_file takes: "single", "parallel", or "panic" when the
\* division final_total_size / threads divides by zero
Strategy(final, ar, resume, nthreads) ==
    IF final = 0 \/ (~supports_range_requests(ar) /\ resume = None) \/ nthreads = 1
    THEN "single"
    ELSE IF resume # None
    THEN "single"
    ELSE IF nthreads = 0
    THEN "panic"
    ELSE IF final \div nthreads = 0
    THEN "single"
    ELSE "parallel"

\* start and end of range i (0-based) in the spawn loop
ChunkStart(i, chunk_size) == i * chunk_size

\* faulty variant of ChunkEnd: the last range does not absorb the division remainder
ChunkEnd_NoRemainder(i, chunk_size, final, nthreads) ==
    (i + 1) * chunk_size - 1

ChunkEnd(i, chunk_size, final, nthreads) ==
    IF i = nthreads - 1 THEN final - 1 ELSE (i + 1) * chunk_size - 1

PlanRanges(final, nthreads) ==
    LET chunk_size == final \div nthreads
    IN [w \in 1..nthreads |->
          [start |-> ChunkStart(w - 1, chunk_size),
           end |-> ChunkEnd(w - 1, chunk_size, final, nthreads)]]

\* faulty variant of JoinOutcome: a panicked worker is skipped instead of failing the job
JoinOutcome_IgnorePanic(ws) == IF ws \in {"ok", "panic"} THEN "continue" ELSE "return_err"

\* what the join loop does with a finished worker: go on, or return Err
JoinOutcome(ws) == IF ws = "ok" THEN "continue" ELSE "return_err"

\* download_chunk's status check on the response
ChunkStatusOk(status) == status # SendFailed /\ IsSuccess(status)

\* faulty variant of SingleStatusOutcome: any success status starts the transfer
SingleStatusOutcome_AnySuccess(status, resume) ==
    IF status = SendFailed \/ ~IsSuccess(status) THEN "err" ELSE "transfer"

\* download_single_threaded after send: "err", "complete" or "transfer"
SingleStatusOutcome(status, resume) ==
    IF status = SendFailed THEN "err"
    ELSE IF ~IsSuccess(status) THEN "err"
    ELSE IF status # (IF resume # None THEN 206 ELSE 200)
    THEN IF status = 416 /\ resume # None THEN "complete" ELSE "err"
    ELSE "transfer"

\* ---- file names ----
\* a Content-Disposition header is a sequence of tokens: "attachment", ";",
\* " ", "filename", "*", "=", "UTF-8''", a quote, or a run of name characters
At(h, p) == IF p >= 1 /\ p <= Len(h) THEN h[p] ELSE "<end>"

\* the class [^;"'] of the regex
NameChar(t) == t \notin {";", "\"", "'", "UTF-8''", "<end>"}

\* the greedy [^;"']+ from position p: the position after its last token
RECURSIVE ValueEnd(_, _)
ValueEnd(h, p) == IF NameChar(At(h, p)) THEN ValueEnd(h, p + 1) ELSE p

\* filename\*?=(?:UTF-8'')?["']?([^;"']+)["']? anchored at position p:
\* capture group 1, or NoneStr when there is no match at p
MatchAt(h, p) ==
    IF At(h, p) # "filename" THEN NoneStr
    ELSE LET q1 == IF At(h, p + 1) = "*" THEN p + 2 ELSE p + 1
         IN IF At(h, q1) # "=" THEN NoneStr
            ELSE LET q2 == IF At(h, q1 + 1) = "UTF-8''" THEN q1 + 2 ELSE q1 + 1
                     q3 == IF At(h, q2) \in {"\"", "'"} THEN q2 + 1 ELSE q2
                     e == ValueEnd(h, q3)
                 IN IF e > q3 THEN Some(SubSeq(h, q3, e - 1))
                    ELSE IF q2 = q1 + 2 THEN Some(<<"UTF-8">>)
                    ELSE NoneStr

\* re.captures: the leftmost match at or after position p
RECURSIVE FirstMatch(_, _)
FirstMatch(h, p) ==
    IF p > Len(h) THEN NoneStr
    ELSE IF MatchAt(h, p).some THEN MatchAt(h, p)
    ELSE FirstMatch(h, p + 1)

\* extract_filename_from_headers: None without the header or without a match
extract_filename_from_headers(d) ==
    IF d.some THEN FirstMatch(d.v, 1) ELSE NoneStr

\* url.split('/').last()
RECURSIVE LastSegment(_)
LastSegment(u) ==
    IF u = <<>> \/ u[Len(u)] = "/" THEN <<>>
    ELSE Append(LastSegment(SubSeq(u, 1, Len(u) - 1)), u[Len(u)])

OutputLiteral == <<"o", "u", "t", "p", "u", "t">>

extract_filename_from_url(u) ==
    IF LastSegment(u) # <<>> THEN LastSegment(u) ELSE OutputLiteral

\* faulty variant of ChooseFilename: the URL's name is preferred to the header's
ChooseFilename_UrlFirst(out, d, u) ==
    IF out.some THEN out.v
    ELSE IF LastSegment(u) # <<>> THEN LastSegment(u)
    ELSE IF extract_filename_from_headers(d).some
    THEN extract_filename_from_headers(d).v
    ELSE OutputLiteral

\* download_file's choice of the output path
ChooseFilename(out, d, u) ==
    IF out.some THEN out.v
    ELSE IF extract_filename_from_headers(d).some
    THEN extract_filename_from_headers(d).v
    ELSE extract_filename_from_url(u)

\* main's own idea of the downloaded file's name
main_filename(out, u) ==
    IF out.some THEN out.v
    ELSE IF LastSegment(u) # <<>> THEN LastSegment(u) ELSE OutputLiteral

\* ---- hashing (hash.rs) ----
\* detect_hash_type: by the length of the expected value
detect_hash_type(len) ==
    IF len = 8 THEN "CRC32"
    ELSE IF len = 32 THEN "MD5"
    ELSE IF len = 40 THEN "SHA1"
    ELSE IF len = 64 THEN "SHA256"
    ELSE "None"

\* calculate_hash: a digest is determined by the algorithm and the file's bytes
calculate_hash(f, hash_type) == [hash_type |-> hash_type, data |-> f.data]

\* faulty variant of verify_and_display: a mismatch is displayed but not returned
verify_and_display_IgnoreMismatch(f, expected, io_ok) ==
    IF detect_hash_type(expected.len) = "None" THEN [ok |-> FALSE, digests |-> 0]
    ELSE IF ~f.exists \/ ~io_ok THEN [ok |-> FALSE, digests |-> 0]
    ELSE [ok |-> TRUE, digests |-> 1]

\* verify_and_display on file f: [ok, digests computed]
verify_and_display(f, expected, io_ok) ==
    IF detect_hash_type(expected.len) = "None" THEN [ok |-> FALSE, digests |-> 0]
    ELSE IF ~f.exists \/ ~io_ok THEN [ok |-> FALSE, digests |-> 0]
    ELSE [ok |-> calculate_hash(f, detect_hash_type(expected.len)) = expected.digest,
          digests |-> 1]

\* faulty variant of HeadError: the status is dropped from the error
HeadError_NoStatus(status) ==
    IF status = SendFailed THEN TransportError ELSE HttpError(None)

\* the error download_file returns when the HEAD probe fails, lines 204-211
HeadError(status) ==
    IF status = SendFailed THEN TransportError ELSE HttpError(status)

\* the error download_single_threaded returns when the outcome is "err"
SingleStatusError(status) ==
    IF status = SendFailed THEN TransportError
    ELSE IF ~IsSuccess(status) THEN HttpError(status)
    ELSE UnexpectedStatus(status)

\* the error a failed download_chunk returned, from where it failed
WorkerError(ws, status) ==
    IF ws = "panic" THEN ThreadPanic
    ELSE IF status = None THEN ChunkTooLargeError
    ELSE IF status = SendFailed THEN TransportError
    ELSE IF ~IsSuccess(status) THEN HttpError(status)
    ELSE IoError

\* what the join loop returns for a failed worker
JoinError(ws, status) ==
    IF ws = "panic" THEN ThreadPanic ELSE ChunkFailed(WorkerError(ws, status))

\* faulty variant of JoinNext: the handles are joined last to first
JoinNext_Reverse(j, nthreads) == nthreads - j

\* the handle the join loop waits for after j handles have been joined
JoinNext(j, nthreads) == j + 1

\* faulty variant of ChunkTooLarge: a chunk of exactly the ceiling is refused
ChunkTooLarge_AtCeiling(chunk_size) == chunk_size >= MAX_CHUNK_SIZE

\* download_chunk's size ceiling
ChunkTooLarge(chunk_size) == chunk_size > MAX_CHUNK_SIZE

\* faulty variant of ProgressInc: the inclusive end is not counted
ProgressInc_Exclusive(start, end) == end - start

\* download_chunk's progress increment for its range
ProgressInc(start, end) == end - start + 1

\* faulty variant of MergeSlot: the buffers are written last to first
MergeSlot_Descending(merged_so_far, nthreads) == nthreads - merged_so_far

\* the chunk buffer the merge loop writes next: `for chunk in chunk_data`
MergeSlot(merged_so_far, nthreads) == merged_so_far + 1

Finished == {"ok", "err", "panic"}

\* ---- the state download_file starts in, whatever its inputs ----
InitJob ==
    /\ pc = "probing"
    /\ result = "none"
    /\ accept_ranges = "absent"
    /\ total_size = 0
    /\ probe = [sent |-> FALSE, status |-> SendFailed, hasCL |-> FALSE, cl |-> 0]
    /\ resume_from = None
    /\ actual_total_size = 0
    /\ mode = "none"
    /\ gets = 0
    /\ ranges = <<>>
    /\ wstate = <<>>
    /\ wreq = <<>>
    /\ wstatus = <<>>
    /\ chunk_data = <<>>
    /\ progress = 0
    /\ joined = 0
    /\ merged = 0
    /\ body = <<>>
    /\ error = NoError
    /\ head_status = None
    /\ single_status = None
    /\ filename = NoneStr
    /\ exit_code = None
    /\ digests = 0
    /\ hashed_path = NoneStr

\* ---- initial states ----
\* the transfer's inputs vary, the names and the hashing request are fixed
Init ==
    /\ InitJob
    /\ remote \in {Pattern(n) : n \in 0..MaxSize}
    /\ threads \in 0..MaxThreads
    /\ continue_download \in BOOLEAN
    /\ disk \in {NoFile} \cup {FileOf(Pattern(n)) : n \in 0..(MaxSize + 1)}
    /\ disk0 = disk
    /\ url = <<"h", "/", "f">>
    /\ output = NoneStr
    /\ disposition = NoneStr
    /\ hash = TRUE
    /\ verify_hash = NoneStr

\* download_file returns
Return(r) == pc' = "done" /\ result' = r /\ error' = error

\* download_file returns Err(e)
Fail(e) == pc' = "done" /\ result' = "err" /\ error' = e

\* ---- download_file: HEAD probe, lines 203-226 and the resume test 229-231 ----
Probe ==
    /\ pc = "probing"
    /\ \E status \in {SendFailed, 200, 500}, hasCL \in BOOLEAN,
          ar \in {"bytes", "Bytes", "none", "absent"} :
         /\ head_status' = status
         /\ IF status = SendFailed \/ ~IsSuccess(status)
            THEN /\ Fail(HeadError(status))
                 /\ UNCHANGED <<accept_ranges, total_size, resume_from,
                                actual_total_size, filename>>
            ELSE /\ accept_ranges' = ar
                 /\ filename' = Some(ChooseFilename(output, disposition, url))
                 /\ total_size' = ContentLength(hasCL, remote)
                 /\ result' = result /\ error' = error
                 /\ IF continue_download /\ get_file_size(disk) # None
                       /\ get_file_size(disk) > 0
                    THEN /\ pc' = "resume_check"
                         /\ UNCHANGED <<resume_from, actual_total_size>>
                    ELSE /\ pc' = "decide"
                         /\ resume_from' = None
                         /\ actual_total_size' = total_size'
    /\ UNCHANGED <<invocation, main_state, single_status, remote, threads, continue_download, disk, disk0, probe, mode,
                   gets, ranges, wstate, wreq, wstatus, chunk_data, progress, joined,
                   merged, body>>

\* ---- download_file: resume negotiation, lines 235-252 ----
ResumeCheck ==
    /\ pc = "resume_check"
    /\ LET existing == get_file_size(disk)
       IN \E status \in ServerStatuses(existing) \cup {SendFailed}, hasCL \in BOOLEAN :
            LET cl == ContentLength(hasCL, ServerBody(status, existing, None))
                n == Negotiate(check_resume_capability(status, cl, existing),
                               existing, total_size)
            IN /\ probe' = [sent |-> TRUE, status |-> status, hasCL |-> hasCL, cl |-> cl]
               /\ gets' = gets + 1
               /\ resume_from' = n.resume_from
               /\ actual_total_size' = n.total
               /\ IF n.kind = "complete"
                  THEN Return("ok")
                  ELSE pc' = "decide" /\ result' = result /\ error' = error
    /\ UNCHANGED <<invocation, main_state, filename, head_status, single_status, remote, threads, continue_download, disk, disk0, accept_ranges,
                   total_size, mode, ranges, wstate, wreq, wstatus, chunk_data, progress,
                   joined, merged, body>>

\* ---- download_file: choice of strategy and spawn loop, lines 265-325 ----
Decide ==
    /\ pc = "decide"
    /\ LET final == FinalTotalSize(actual_total_size, total_size)
           s == Strategy(final, accept_ranges, resume_from, threads)
       IN IF s = "panic"
          THEN /\ Return("panic")
               /\ UNCHANGED <<mode, ranges, wstate, wreq, wstatus, chunk_data>>
          ELSE IF s = "single"
          THEN /\ pc' = "single_send"
               /\ mode' = "single"
               /\ UNCHANGED <<result, error, ranges, wstate, wreq, wstatus, chunk_data>>
          ELSE /\ pc' = "joining"
               /\ mode' = "parallel"
               /\ ranges' = PlanRanges(final, threads)
               /\ wstate' = [w \in 1..threads |-> "spawned"]
               /\ wreq' = [w \in 1..threads |-> 0]
               /\ wstatus' = [w \in 1..threads |-> None]
               /\ chunk_data' = [w \in 1..threads |-> [resp |-> <<>>, data |-> <<>>]]
               /\ result' = result /\ error' = error
    /\ UNCHANGED <<invocation, main_state, filename, head_status, single_status, remote, threads, continue_download, disk, disk0, accept_ranges,
                   total_size, probe, resume_from, actual_total_size, gets,
                   progress, joined, merged, body>>


\* ---- download_chunk, lines 106-121: size ceiling, ranged GET, status check ----
WorkerSend(w) ==
    /\ exit_code = None
    /\ w \in DOMAIN wstate
    /\ wstate[w] = "spawned"
    /\ LET start == ranges[w].start
           end == ranges[w].end
       IN IF ChunkTooLarge(end - start + 1)
          THEN /\ wstate' = [wstate EXCEPT ![w] = "err"]
               /\ UNCHANGED <<wreq, wstatus, gets, chunk_data>>
          ELSE \E status \in ServerStatuses(start) \cup {SendFailed} :
                 /\ wreq' = [wreq EXCEPT ![w] = @ + 1]
                 /\ wstatus' = [wstatus EXCEPT ![w] = status]
                 /\ gets' = gets + 1
                 /\ IF ChunkStatusOk(status)
                    THEN /\ wstate' = [wstate EXCEPT ![w] = "reading"]
                         /\ chunk_data' = [chunk_data EXCEPT
                                             ![w] = [resp |-> ServerBody(status, start, end),
                                                     data |-> <<>>]]
                    ELSE /\ wstate' = [wstate EXCEPT ![w] = "err"]
                         /\ UNCHANGED chunk_data
    /\ UNCHANGED <<invocation, main_state, filename, head_status, single_status, remote, threads, continue_download, disk, disk0, pc, result, error,
                   accept_ranges, total_size, probe, resume_from,
                   actual_total_size, mode, ranges, progress, joined, merged, body>>

\* faulty variant of WorkerStore: every worker stores into the first slot
WorkerStore_SharedSlot(w) ==
    /\ exit_code = None
    /\ w \in DOMAIN wstate
    /\ wstate[w] = "reading"
    /\ \/ /\ wstate' = [wstate EXCEPT ![w] = "stored"]
          /\ chunk_data' = [v \in DOMAIN chunk_data |->
                              [resp |-> IF v = w THEN <<>> ELSE chunk_data[v].resp,
                               data |-> IF v = 1 THEN chunk_data[w].resp
                                        ELSE chunk_data[v].data]]
       \/ /\ wstate' = [wstate EXCEPT ![w] = "err"]
          /\ chunk_data' = [chunk_data EXCEPT ![w] = [resp |-> <<>>, data |-> <<>>]]
    /\ UNCHANGED <<invocation, main_state, filename, head_status, single_status, remote, threads, continue_download, disk, disk0, pc, result, error,
                   accept_ranges, total_size, probe, resume_from,
                   actual_total_size, mode, gets, ranges, wreq, wstatus, progress, joined,
                   merged, body>>

\* ---- download_chunk, lines 123-130: read_to_end, then store the buffer ----
WorkerStore(w) ==
    /\ exit_code = None
    /\ w \in DOMAIN wstate
    /\ wstate[w] = "reading"
    /\ \/ /\ wstate' = [wstate EXCEPT ![w] = "stored"]
          /\ chunk_data' = [chunk_data EXCEPT ![w] = [resp |-> <<>>, data |-> @.resp]]
       \/ /\ wstate' = [wstate EXCEPT ![w] = "err"]
          /\ chunk_data' = [chunk_data EXCEPT ![w] = [resp |-> <<>>, data |-> <<>>]]
    /\ UNCHANGED <<invocation, main_state, filename, head_status, single_status, remote, threads, continue_download, disk, disk0, pc, result, error,
                   accept_ranges, total_size, probe, resume_from,
                   actual_total_size, mode, gets, ranges, wreq, wstatus, progress, joined,
                   merged, body>>

\* ---- download_chunk, lines 132-137: progress increment, return Ok ----
WorkerProgress(w) ==
    /\ exit_code = None
    /\ w \in DOMAIN wstate
    /\ wstate[w] = "stored"
    /\ progress' = progress + ProgressInc(ranges[w].start, ranges[w].end)
    /\ wstate' = [wstate EXCEPT ![w] = "ok"]
    /\ UNCHANGED <<invocation, main_state, filename, head_status, single_status, remote, threads, continue_download, disk, disk0, pc, result, error,
                   accept_ranges, total_size, probe, resume_from,
                   actual_total_size, mode, gets, ranges, wreq, wstatus, chunk_data,
                   joined, merged, body>>

\* ---- a worker thread terminates by panic (the Err arm of handle.join()) ----
WorkerPanic(w) ==
    /\ exit_code = None
    /\ w \in DOMAIN wstate
    /\ wstate[w] \in {"spawned", "reading"}
    /\ wstate' = [wstate EXCEPT ![w] = "panic"]
    /\ chunk_data' = [chunk_data EXCEPT ![w] = [resp |-> <<>>, data |-> @.data]]
    /\ UNCHANGED <<invocation, main_state, filename, head_status, single_status, remote, threads, continue_download, disk, disk0, pc, result, error,
                   accept_ranges, total_size, probe, resume_from,
                   actual_total_size, mode, gets, ranges, wreq, wstatus, progress, joined,
                   merged, body>>

\* ---- download_file: one iteration of the join loop, lines 328-339 ----
Join ==
    /\ pc = "joining"
    /\ joined < threads
    /\ LET w == JoinNext(joined, threads)
       IN /\ wstate[w] \in Finished
          /\ IF JoinOutcome(wstate[w]) = "continue"
             THEN /\ joined' = joined + 1
                  /\ pc' = IF joined + 1 = threads THEN "merge" ELSE "joining"
                  /\ result' = result /\ error' = error
             ELSE /\ Fail(JoinError(wstate[w], wstatus[w]))
                  /\ joined' = joined
    /\ UNCHANGED <<invocation, main_state, filename, head_status, single_status, remote, threads, continue_download, disk, disk0,
                   accept_ranges, total_size, probe, resume_from,
                   actual_total_size, mode, gets, ranges, wstate, wreq, wstatus,
                   chunk_data, progress, merged, body>>

\* ---- download_file: File::create of the output file, line 342 ----
MergeCreate ==
    /\ pc = "merge"
    /\ \/ /\ disk' = FileOf(<<>>)
          /\ pc' = "merging"
          /\ result' = result /\ error' = error
       \/ /\ Fail(IoError)
          /\ disk' = disk
    /\ UNCHANGED <<invocation, main_state, filename, head_status, single_status, remote, threads, continue_download, disk0, accept_ranges,
                   total_size, probe, resume_from, actual_total_size, mode, gets,
                   ranges, wstate, wreq, wstatus, chunk_data, progress, joined, merged, body>>

\* ---- download_file: one iteration of the merge loop, lines 343-354 ----
MergeWrite ==
    /\ pc = "merging"
    /\ merged < threads
    /\ \/ /\ disk' = FileOf(disk.data \o chunk_data[MergeSlot(merged, threads)].data)
          /\ merged' = merged + 1
          /\ IF merged + 1 = threads
             THEN Return("ok")
             ELSE pc' = pc /\ result' = result /\ error' = error
       \/ /\ Fail(IoError)
          /\ UNCHANGED <<disk, merged>>
    /\ UNCHANGED <<invocation, main_state, filename, head_status, single_status, remote, threads, continue_download, disk0, accept_ranges,
                   total_size, probe, resume_from, actual_total_size, mode, gets,
                   ranges, wstate, wreq, wstatus, chunk_data, progress, joined, body>>

\* ---- download_single_threaded, lines 147-182: GET, status gate, open ----
SingleSend ==
    /\ pc = "single_send"
    /\ \E status \in ServerStatuses(resume_from) \cup {SendFailed} :
         /\ gets' = gets + 1
         /\ single_status' = status
         /\ LET o == SingleStatusOutcome(status, resume_from)
            IN IF o = "err"
               THEN Fail(SingleStatusError(status)) /\ UNCHANGED <<disk, body>>
               ELSE IF o = "complete"
               THEN Return("ok") /\ UNCHANGED <<disk, body>>
               ELSE \/ /\ IF resume_from # None
                          THEN disk.exists /\ disk' = disk
                          ELSE disk' = FileOf(<<>>)
                       /\ body' = ServerBody(status, resume_from, None)
                       /\ pc' = "streaming"
                       /\ result' = result /\ error' = error
                    \/ Fail(IoError) /\ UNCHANGED <<disk, body>>
    /\ UNCHANGED <<invocation, main_state, filename, head_status, remote, threads, continue_download, disk0, accept_ranges,
                   total_size, probe, resume_from, actual_total_size, mode,
                   ranges, wstate, wreq, wstatus, chunk_data, progress, joined, merged>>

\* faulty variant of SingleRead: a failed read or write removes the output file
SingleRead_Rollback ==
    /\ pc = "streaming"
    /\ \/ /\ body = <<>>
          /\ Return("ok")
          /\ UNCHANGED <<disk, body, progress>>
       \/ \E n \in 1..Min(MaxRead, Len(body)) :
            /\ disk' = FileOf(disk.data \o SubSeq(body, 1, n))
            /\ body' = SubSeq(body, n + 1, Len(body))
            /\ progress' = Len(disk'.data)
            /\ pc' = pc
            /\ result' = result /\ error' = error
       \/ /\ Fail(IoError)
          /\ disk' = NoFile
          /\ UNCHANGED <<body, progress>>
    /\ UNCHANGED <<invocation, main_state, filename, head_status, single_status, remote, threads, continue_download, disk0, accept_ranges,
                   total_size, probe, resume_from, actual_total_size, mode, gets,
                   ranges, wstate, wreq, wstatus, chunk_data, joined, merged>>

\* ---- download_single_threaded, lines 188-199: one iteration of the copy loop ----
SingleRead ==
    /\ pc = "streaming"
    /\ \/ /\ body = <<>>
          /\ Return("ok")
          /\ UNCHANGED <<disk, body, progress>>
       \/ \E n \in 1..Min(MaxRead, Len(body)) :
            /\ disk' = FileOf(disk.data \o SubSeq(body, 1, n))
            /\ body' = SubSeq(body, n + 1, Len(body))
            /\ progress' = Len(disk'.data)
            /\ pc' = pc
            /\ result' = result /\ error' = error
       \/ /\ Fail(IoError)
          /\ UNCHANGED <<disk, body, progress>>
    /\ UNCHANGED <<invocation, main_state, filename, head_status, single_status, remote, threads, continue_download, disk0, accept_ranges,
                   total_size, probe, resume_from, actual_total_size, mode, gets,
                   ranges, wstate, wreq, wstatus, chunk_data, joined, merged>>

\* the files main may find at a path: the output file when the path is the
\* one download_file wrote, otherwise some other file or none
FilesAt(path) ==
    IF filename.some /\ filename.v = path
    THEN {disk}
    ELSE {NoFile, FileOf(<<>>), FileOf(Pattern(1))}

\* ---- main, lines 13-50: exit on a download error, else hash or verify ----
MainFinish ==
    /\ pc = "done"
    /\ exit_code = None
    /\ IF result = "err"
       THEN exit_code' = 1 /\ UNCHANGED <<digests, hashed_path>>
       ELSE IF result = "panic"
       THEN exit_code' = 101 /\ UNCHANGED <<digests, hashed_path>>
       ELSE IF ~(hash \/ verify_hash.some)
       THEN exit_code' = 0 /\ UNCHANGED <<digests, hashed_path>>
       ELSE LET path == main_filename(output, url)
            IN /\ hashed_path' = Some(path)
               /\ \E f \in FilesAt(path), io_ok \in BOOLEAN :
                    IF verify_hash.some
                    THEN LET r == verify_and_display(f, verify_hash.v, io_ok)
                         IN /\ digests' = r.digests
                            /\ exit_code' = IF r.ok THEN 0 ELSE 1
                    ELSE IF f.exists /\ io_ok
                    THEN digests' = 4 /\ exit_code' = 0
                    ELSE digests' = 0 /\ exit_code' = 1
    /\ UNCHANGED <<invocation, filename, head_status, single_status, remote, threads,
                   continue_download, disk, disk0, pc, result, error,
                   accept_ranges, total_size, probe, resume_from,
                   actual_total_size, mode, gets, ranges, wstate, wreq, wstatus,
                   chunk_data, progress, joined, merged, body>>

Next ==
    \/ Probe
    \/ ResumeCheck
    \/ Decide
    \/ \E w \in 1..MaxThreads : WorkerSend(w)
    \/ \E w \in 1..MaxThreads : WorkerStore(w)
    \/ \E w \in 1..MaxThreads : WorkerProgress(w)
    \/ \E w \in 1..MaxThreads : WorkerPanic(w)
    \/ Join
    \/ MergeCreate
    \/ MergeWrite
    \/ SingleSend
    \/ SingleRead
    \/ MainFinish

Spec == Init /\ [][Next]_vars

\* the steps of the main thread (download_file, then main)
Job ==
    \/ Probe
    \/ ResumeCheck
    \/ Decide
    \/ Join
    \/ MergeCreate
    \/ MergeWrite
    \/ SingleSend
    \/ SingleRead
    \/ MainFinish

\* the steps of the thread spawned for range w (download_chunk)
Worker(w) ==
    \/ WorkerSend(w)
    \/ WorkerStore(w)
    \/ WorkerProgress(w)
    \/ WorkerPanic(w)

\* every thread that can take a step eventually takes one: blocking calls
\* (send, read, write, join) return, and the scheduler starves no thread
LiveSpec ==
    /\ Init
    /\ [][Next]_vars
    /\ WF_vars(Job)
    /\ \A w \in 1..MaxThreads : WF_vars(Worker(w))

\* ---- one invocation of the program: the names and the hashing request vary ----
PlainName == <<"a.txt">>
ExtendedName == <<"b.txt">>

\* attachment; filename="a.txt"
PlainOnly == <<"attachment", ";", " ", "filename", "=", "\"", "a.txt", "\"">>
\* attachment; filename*=UTF-8''b.txt
ExtendedOnly == <<"attachment", ";", " ", "filename", "*", "=", "UTF-8''", "b.txt">>
\* attachment; filename="a.txt"; filename*=UTF-8''b.txt
PlainThenExtended ==
    PlainOnly \o <<";", " ", "filename", "*", "=", "UTF-8''", "b.txt">>
\* attachment; filename*=UTF-8''b.txt; filename="a.txt"
ExtendedThenPlain ==
    ExtendedOnly \o <<";", " ", "filename", "=", "\"", "a.txt", "\"">>

Dispositions ==
    {NoneStr, Some(<<"attachment">>), Some(PlainOnly), Some(ExtendedOnly),
     Some(PlainThenExtended), Some(ExtendedThenPlain)}

Urls == {<<"h", "/", "f">>, <<"h", "/">>, <<"h">>}

\* --verify-hash values: the SHA256 and the MD5 of the resource, the SHA256 of
\* something else, and a value of no known length
ExpectedHashes(r) ==
    {[len |-> 64, digest |-> [hash_type |-> "SHA256", data |-> r]],
     [len |-> 32, digest |-> [hash_type |-> "MD5", data |-> r]],
     [len |-> 64, digest |-> [hash_type |-> "SHA256", data |-> <<9>>]],
     [len |-> 7, digest |-> [hash_type |-> "SHA256", data |-> r]]}

InitInvocation ==
    /\ InitJob
    /\ remote = Pattern(2)
    /\ threads \in 1..2
    /\ continue_download \in BOOLEAN
    /\ disk \in {NoFile, FileOf(Pattern(1))}
    /\ disk0 = disk
    /\ url \in Urls
    /\ output \in {NoneStr, Some(<<"o">>)}
    /\ disposition \in Dispositions
    /\ \/ hash \in BOOLEAN /\ verify_hash = NoneStr
       \/ hash = FALSE /\ verify_hash \in {Some(e) : e \in ExpectedHashes(remote)}

SpecInvocation == InitInvocation /\ [][Next]_vars

\* ---- download_chunk on ranges around the size ceiling ----
\* two workers spawned on ranges of MAX_CHUNK_SIZE - 1, MAX_CHUNK_SIZE or
\* MAX_CHUNK_SIZE + 1 bytes; the server holds `remote` and clamps a range to it
CeilingSizes == {MAX_CHUNK_SIZE - 1, MAX_CHUNK_SIZE, MAX_CHUNK_SIZE + 1}

InitChunk ==
    /\ remote = Pattern(MaxSize)
    /\ threads = 2
    /\ continue_download = FALSE
    /\ disk = NoFile
    /\ disk0 = disk
    /\ pc = "joining"
    /\ result = "none"
    /\ accept_ranges = "bytes"
    /\ \E l1 \in CeilingSizes, l2 \in CeilingSizes :
         /\ total_size = l1 + l2
         /\ ranges = <<[start |-> 0, end |-> l1 - 1],
                       [start |-> l1, end |-> l1 + l2 - 1]>>
    /\ actual_total_size = total_size
    /\ probe = [sent |-> FALSE, status |-> SendFailed, hasCL |-> FALSE, cl |-> 0]
    /\ resume_from = None
    /\ mode = "parallel"
    /\ gets = 0
    /\ wstate = <<"spawned", "spawned">>
    /\ wreq = <<0, 0>>
    /\ wstatus = <<None, None>>
    /\ chunk_data = [w \in 1..2 |-> [resp |-> <<>>, data |-> <<>>]]
    /\ progress = 0
    /\ joined = 0
    /\ merged = 0
    /\ body = <<>>
    /\ error = NoError
    /\ head_status = 200
    /\ single_status = None
    /\ url = <<"h", "/", "f">>
    /\ output = NoneStr
    /\ disposition = NoneStr
    /\ filename = Some(<<"f">>)
    /\ hash = FALSE
    /\ verify_hash = NoneStr
    /\ exit_code = None
    /\ digests = 0
    /\ hashed_path = NoneStr

NextChunk ==
    \/ \E w \in 1..MaxThreads : WorkerSend(w)
    \/ \E w \in 1..MaxThreads : WorkerStore(w)
    \/ \E w \in 1..MaxThreads : WorkerProgress(w)
    \/ \E w \in 1..MaxThreads : WorkerPanic(w)

SpecChunk == InitChunk /\ [][NextChunk]_vars


\* ======================= properties =======================

PlanTotal == FinalTotalSize(actual_total_size, total_size)

RangeLen(r) == r.end - r.start + 1

RECURSIVE SumLen(_, _)
SumLen(rs, n) == IF n = 0 THEN 0 ELSE RangeLen(rs[n]) + SumLen(rs, n - 1)

Existing0 == Len(disk0.data)

\* C1: in parallel mode the planned ranges are one per thread, each non-empty,
\* sorted and contiguous (range[i+1].start = range[i].end + 1), begin at 0,
\* end at total_size - 1, and their lengths sum to total_size.
C1_RangePlan ==
    mode = "parallel" =>
        /\ threads >= 2 /\ PlanTotal > 0 /\ PlanTotal \div threads >= 1
        /\ Len(ranges) = threads
        /\ ranges[1].start = 0
        /\ ranges[threads].end = PlanTotal - 1
        /\ \A i \in 1..threads : ranges[i].start <= ranges[i].end
        /\ \A i \in 1..(threads - 1) : ranges[i + 1].start = ranges[i].end + 1
        /\ SumLen(ranges, threads) = PlanTotal

\* a plan whose last range absorbs a division remainder
C1_Witness ==
    /\ mode = "parallel"
    /\ threads = 2
    /\ PlanTotal = 5
    /\ ranges = <<[start |-> 0, end |-> 1], [start |-> 2, end |-> 4]>>

\* C2: when a parallel job returns success, the output file holds exactly the
\* remote resource's bytes, offset by offset (what the single-threaded path
\* writes for the same resource).
C2_AssemblyEquivalence ==
    (pc = "done" /\ result = "ok" /\ mode = "parallel") =>
        (disk.exists /\ disk.data = remote)

\* C3: when total_size = 0, thread_count <= 1 (0 included) or
\* total_size / thread_count = 0, the strategy decision ends on the
\* single-threaded path, with no worker spawned and without a fault.
C3_Fallback ==
    (/\ pc \notin {"probing", "resume_check", "decide"}
     /\ ~(mode = "none" /\ result \in {"ok", "err"})
     /\ (PlanTotal = 0 \/ threads <= 1 \/ PlanTotal \div threads = 0)) =>
        (mode = "single" /\ wstate = <<>> /\ result # "panic")

\* C4: in parallel mode download_file has returned only if every spawned
\* worker has finished.
C4_JoinAll ==
    (pc = "done" /\ mode = "parallel") =>
        \A w \in DOMAIN wstate : wstate[w] \in Finished

\* C5: in parallel mode, a returned job is an error if any worker ended in
\* error or panic, it is a success only if every worker returned success, and
\* no worker ever sends a second request for its range.
C5_FailureAggregation ==
    mode = "parallel" =>
        /\ (pc = "done" /\ (\E w \in DOMAIN wstate : wstate[w] \in {"err", "panic"}))
              => result = "err"
        /\ (pc = "done" /\ result = "ok")
              => \A w \in DOMAIN wstate : wstate[w] = "ok"
        /\ result # "ok" => pc # "done" \/ result = "err"
        /\ \A w \in DOMAIN wreq : wreq[w] <= 1

\* a job that failed because one worker panicked while a sibling succeeded
C5_Witness ==
    /\ mode = "parallel"
    /\ pc = "done"
    /\ result = "err"
    /\ \E w \in DOMAIN wstate : wstate[w] = "panic"
    /\ \E w \in DOMAIN wstate : wstate[w] = "ok" /\ wreq[w] = 1

\* C6: a worker whose sub-range request was answered 4xx/5xx, or 200 with the
\* full body instead of 206, gets no further than the status check: it stores
\* no buffer and does not return success.
C6_SubRangeStatus ==
    \A w \in DOMAIN wstate :
        (wstatus[w] \in {200, 416, 500} /\ RangeLen(ranges[w]) < PlanTotal) =>
            wstate[w] \notin {"reading", "stored", "ok"}

\* C7: after a resume probe answered 206 with Content-Length r, the resume
\* offset is the existing size and the total is existing + r; the file only
\* grows by appending, no worker is spawned, and a successful job leaves a
\* file of exactly existing + r bytes.
C7_ResumeContinuation ==
    (probe.sent /\ probe.status = 206 /\ probe.hasCL) =>
        /\ resume_from = Existing0
        /\ actual_total_size = Existing0 + probe.cl
        /\ mode \in {"none", "single"}
        /\ disk.exists
        /\ Len(disk.data) >= Existing0
        /\ SubSeq(disk.data, 1, Existing0) = disk0.data
        /\ (pc = "done" /\ result = "ok") => Len(disk.data) = Existing0 + probe.cl

\* a resumed transfer that completed and appended r > 0 bytes
C7_Witness ==
    /\ probe.sent /\ probe.status = 206 /\ probe.hasCL
    /\ probe.cl > 0
    /\ Existing0 > 0
    /\ pc = "done" /\ result = "ok"
    /\ Len(disk.data) = Existing0 + probe.cl

\* C8: after a resume probe answered 416, download_file has returned success
\* having sent that one GET only, and the local file is as it was.
C8_AlreadyComplete ==
    (probe.sent /\ probe.status = 416) =>
        /\ pc = "done" /\ result = "ok"
        /\ gets = 1
        /\ mode = "none"
        /\ disk = disk0

\* an already-complete local file reported as such
C8_Witness ==
    /\ continue_download
    /\ probe.sent /\ probe.status = 416
    /\ Existing0 > 0
    /\ pc = "done" /\ result = "ok"

\* C9: after a resume probe answered 200, the negotiation gives no resume
\* offset and the response's content length as total, and the job does not
\* stop as already complete: it goes on to transfer from offset 0.
C9_RangeIgnored ==
    (probe.sent /\ probe.status = 200) =>
        /\ resume_from = None
        /\ actual_total_size = probe.cl
        /\ ~(pc = "done" /\ mode = "none")

\* C10: after a resume probe that failed to be sent or was answered with a
\* non-success status other than 416, the job ends in error and the local
\* file is not touched.
C10_ProbeErrorSurfaces ==
    (probe.sent /\ probe.status \in {SendFailed, 500}) =>
        /\ pc = "done" => result = "err"
        /\ disk = disk0


\* C11: once a resume offset is negotiated, no worker is ever spawned and the
\* strategy decision puts the job on the single-threaded path, whatever the
\* thread count and the Accept-Ranges header.
C11_ResumeSingleThreaded ==
    resume_from # None =>
        /\ wstate = <<>>
        /\ mode \in {"none", "single"}
        /\ mode = "none" => pc = "decide"

\* a resumed job sent to the single-threaded path although two threads were
\* requested, ranges are supported and every thread would get a byte
C11_Witness ==
    /\ resume_from # None
    /\ mode = "single"
    /\ threads = 2
    /\ accept_ranges = "bytes"
    /\ PlanTotal \div threads >= 1

\* C12: when the HEAD probe cannot be sent or is answered with a non-success
\* status, download_file has returned an error (carrying the status when the
\* server answered), no GET was sent, and the output file is as it was.
C12_ProbeFailure ==
    (head_status # None /\ ~IsSuccess(head_status)) =>
        /\ pc = "done" /\ result = "err"
        /\ head_status # SendFailed =>
              (error.kind = "http" /\ error.status = head_status)
        /\ head_status = SendFailed => error = TransportError
        /\ gets = 0
        /\ mode = "none"
        /\ disk = disk0
        /\ ~filename.some

\* a HEAD answered 500 while a local file exists
C12_Witness ==
    /\ head_status = 500
    /\ error.status = 500
    /\ result = "err"
    /\ disk0.exists /\ Len(disk0.data) > 0

\* C13: no step removes the output file, the step by which download_file
\* fails leaves the file as it is, and nothing changes it afterwards.
C13_NoRollback ==
    [][/\ disk.exists => disk'.exists
       /\ (result # "err" /\ result' = "err") => disk' = disk
       /\ pc = "done" => disk' = disk]_vars

\* a single-threaded transfer that failed mid-stream and left a partial file
C13_Witness ==
    /\ pc = "done" /\ result = "err"
    /\ mode = "single"
    /\ ~disk0.exists
    /\ disk.exists
    /\ Len(disk.data) > 0 /\ Len(disk.data) < Len(remote)

\* C14: the chosen output path is output_name when given; else the
\* Content-Disposition filename when the header yields one; else the URL's
\* last segment when non-empty; else the literal `output`.
C14_PathPriority ==
    filename.some =>
        /\ output.some => filename.v = output.v
        /\ (~output.some /\ extract_filename_from_headers(disposition).some)
              => filename.v = extract_filename_from_headers(disposition).v
        /\ (/\ ~output.some
            /\ ~extract_filename_from_headers(disposition).some
            /\ LastSegment(url) # <<>>)
              => filename.v = LastSegment(url)
        /\ (/\ ~output.some
            /\ ~extract_filename_from_headers(disposition).some
            /\ LastSegment(url) = <<>>)
              => filename.v = OutputLiteral

\* a completed download written under the header's name although the URL
\* has a name of its own
C14_Witness ==
    /\ ~output.some
    /\ disposition = Some(ExtendedOnly)
    /\ LastSegment(url) = <<"f">>
    /\ filename = Some(ExtendedName)
    /\ pc = "done" /\ result = "ok"
    /\ disk.exists

\* C15: when the header carries both a plain and an extended filename
\* parameter, in either order, the chosen name is the extended one.
C15_ExtendedWins ==
    (/\ filename.some
     /\ ~output.some
     /\ disposition \in {Some(PlainThenExtended), Some(ExtendedThenPlain)})
        => filename.v = ExtendedName

\* C16: the hashing stage runs only after download_file returned success; a
\* download error ends the process with a non-zero status and no digest
\* computed; a verification exits 0 only if the digest of the file it was
\* given is the expected one.
C16_ExitOrdering ==
    /\ (digests > 0 \/ hashed_path.some) => (pc = "done" /\ result = "ok")
    /\ exit_code = 0 => result = "ok"
    /\ (exit_code # None /\ result \in {"err", "panic"})
          => (exit_code \notin {None, 0} /\ digests = 0 /\ ~hashed_path.some)
    /\ (exit_code = 0 /\ verify_hash.some)
          => /\ hashed_path.some
             /\ digests = 1
             /\ \E f \in FilesAt(hashed_path.v) :
                  /\ f.exists
                  /\ detect_hash_type(verify_hash.v.len) # "None"
                  /\ verify_hash.v.digest.hash_type = detect_hash_type(verify_hash.v.len)
                  /\ verify_hash.v.digest.data = f.data

\* a download that succeeded and whose verification then failed on a mismatch
C16_Witness ==
    /\ result = "ok"
    /\ verify_hash.some
    /\ digests = 1
    /\ exit_code = 1

\* C17: workers are spawned only when the HEAD response's Accept-Ranges value
\* is exactly `bytes`; with the header absent or any other value a
\* non-resumed job is on the single-threaded path once the strategy is chosen.
C17_RangeSupportGate ==
    /\ mode = "parallel" => accept_ranges = "bytes"
    /\ (/\ accept_ranges # "bytes"
        /\ resume_from = None
        /\ mode # "none") => (mode = "single" /\ wstate = <<>>)

\* two threads and enough bytes, but the header value differs from `bytes`
\* by case only
C17_Witness ==
    /\ accept_ranges = "Bytes"
    /\ head_status = 200
    /\ resume_from = None
    /\ threads = 2
    /\ PlanTotal >= 2
    /\ mode = "single"

FailedWorkers == {w \in DOMAIN wstate : wstate[w] \in {"err", "panic"}}

LowestFailed == CHOOSE w \in FailedWorkers : \A v \in FailedWorkers : w <= v

\* C18: when download_file has returned in parallel mode and some workers
\* have failed, the error it returned is the one of the failed worker with
\* the lowest range index.
C18_LowestIndexError ==
    (pc = "done" /\ mode = "parallel" /\ FailedWorkers # {}) =>
        /\ result = "err"
        /\ error = JoinError(wstate[LowestFailed], wstatus[LowestFailed])

\* two workers failed in different ways; the first one's error was returned
C18_Witness ==
    /\ pc = "done" /\ mode = "parallel"
    /\ FailedWorkers = {1, 2}
    /\ wstate[1] = "err" /\ wstatus[1] = 500
    /\ wstate[2] = "panic"
    /\ error = ChunkFailed(HttpError(500))

RECURSIVE SumOk(_)
SumOk(n) ==
    IF n = 0 THEN 0
    ELSE (IF wstate[n] = "ok" THEN RangeLen(ranges[n]) ELSE 0) + SumOk(n - 1)

\* C19: in parallel mode the progress counter is the sum of the range lengths
\* of the workers that returned success; it never exceeds total_size and
\* equals it once every worker has succeeded.
C19_ProgressAccounting ==
    mode = "parallel" =>
        /\ progress = SumOk(Len(wstate))
        /\ progress <= PlanTotal
        /\ (\A w \in DOMAIN wstate : wstate[w] = "ok") => progress = PlanTotal

\* both workers succeeded on ranges of different lengths
C19_Witness ==
    /\ mode = "parallel"
    /\ PlanTotal = 5
    /\ \A w \in DOMAIN wstate : wstate[w] = "ok"
    /\ progress = 5

\* C20: a worker whose range is longer than MAX_CHUNK_SIZE sends no request
\* and touches neither its buffer nor the progress counter: it can only end
\* in error; a worker whose range is at most the ceiling never fails without
\* having sent its request.
C20_ChunkCeiling ==
    /\ \A w \in DOMAIN wstate :
         RangeLen(ranges[w]) > MAX_CHUNK_SIZE =>
            /\ wstate[w] \in {"spawned", "err", "panic"}
            /\ wreq[w] = 0
            /\ wstatus[w] = None
            /\ chunk_data[w] = [resp |-> <<>>, data |-> <<>>]
    /\ \A w \in DOMAIN wstate :
         (RangeLen(ranges[w]) <= MAX_CHUNK_SIZE /\ wstate[w] = "err") => wreq[w] = 1
    /\ progress = SumOk(Len(wstate))
    /\ gets = wreq[1] + wreq[2]

\* one worker of exactly the ceiling succeeded, its sibling one byte over the
\* ceiling failed without a request
C20_Witness ==
    /\ RangeLen(ranges[1]) = MAX_CHUNK_SIZE
    /\ wstate[1] = "ok"
    /\ progress = MAX_CHUNK_SIZE
    /\ RangeLen(ranges[2]) = MAX_CHUNK_SIZE + 1
    /\ wstate[2] = "err"
    /\ wreq[2] = 0


\* how far the job is along Probing, ResumeCheck, the strategy decision, the
\* transfer, the assembly of the output file, and its return
Phase ==
    CASE pc = "probing" -> 0
      [] pc = "resume_check" -> 1
      [] pc = "decide" -> 2
      [] pc \in {"single_send", "joining"} -> 3
      [] pc \in {"streaming", "merge", "merging"} -> 4
      [] pc = "done" -> 5

\* C21: a job only moves forward through Probing, ResumeCheck, the strategy
\* decision, the transfer and the assembly; a resumed single-threaded transfer
\* is entered only after the resume check and workers only from the strategy
\* decision; once download_file has returned, its result never changes; and,
\* when no thread is starved and every blocking call returns, every job
\* eventually returns success or an error.
C21_JobStateMachine ==
    /\ [][/\ Phase' >= Phase
          /\ pc = "done" => (pc' = "done" /\ result' = result /\ error' = error)
          /\ (pc' = "single_send" /\ resume_from' # None) => probe'.sent
          /\ (pc' = "joining" /\ pc # "joining") => pc = "decide"]_vars
    /\ <>(pc = "done" /\ result \in {"ok", "err"})


RECURSIVE ConcatChunks(_)
ConcatChunks(n) == IF n = 0 THEN <<>> ELSE ConcatChunks(n - 1) \o chunk_data[n].data

AllJoinedOk ==
    /\ joined = threads
    /\ \A w \in DOMAIN wstate : wstate[w] = "ok"

\* C22 as stated: in parallel mode the output file differs from what it was
\* only after every worker has been joined successfully, what has been written
\* is the buffers in ascending range order, and after any failure of a
\* parallel job the file is as it was before the job.
C22_UntouchedOnAnyFailure ==
    mode = "parallel" =>
        /\ (disk # disk0 \/ pc = "merging" \/ merged > 0) => AllJoinedOk
        /\ (pc = "merging" \/ merged > 0) => disk = FileOf(ConcatChunks(merged))
        /\ (pc = "done" /\ result = "err") => disk = disk0

\* C22, amended: as above, but the file is as it was before the job only when
\* the failure is a worker's (the join loop returned the error) or the
\* creation of the file failed; when a write fails during the merge the file
\* holds the buffers written so far.
C22_MergeAfterJoin ==
    mode = "parallel" =>
        /\ (disk # disk0 \/ pc = "merging" \/ merged > 0) => AllJoinedOk
        /\ (pc = "merging" \/ merged > 0) => disk = FileOf(ConcatChunks(merged))
        /\ (pc \in {"joining", "merge"} \/ (pc = "done" /\ ~AllJoinedOk)) => disk = disk0
        /\ (pc = "done" /\ result = "err" /\ error # IoError) => disk = disk0
        /\ (pc = "done" /\ result = "ok") => merged = threads

\* every worker was joined, the file was created over an existing one and the
\* first buffer written, then the second write failed
C22_Witness ==
    /\ mode = "parallel"
    /\ pc = "done" /\ result = "err" /\ error = IoError
    /\ threads = 2 /\ merged = 1
    /\ disk0.exists /\ Len(disk0.data) > 0
    /\ disk = FileOf(chunk_data[1].data)
    /\ disk # disk0


\* C23: whenever download_file has returned success and the HEAD response gave
\* the resource's length, the output file exists and has exactly that many
\* bytes (fresh, restarted, resumed and `already complete` returns alike).
C23_SuccessCompleteFile ==
    (pc = "done" /\ result = "ok" /\ total_size > 0) =>
        (disk.exists /\ Len(disk.data) = total_size)


\* C24: whenever main has handed a path to the hashing stage, it is the path
\* download_file chose for the output file.
C24_HashedFileIsDownloaded ==
    hashed_path.some => (filename.some /\ hashed_path.v = filename.v)


\* C25: a buffer slot changes only by the step in which its own worker stores
\* its body, which happens at most once per worker and changes no other slot;
\* the merge reads a slot only when its worker has been joined and has
\* finished, and no slot changes in a step that reads one.
C25_BufferOwnership ==
    [][/\ \A w \in DOMAIN chunk_data :
            chunk_data'[w].data # chunk_data[w].data =>
               /\ wstate[w] = "reading" /\ wstate'[w] = "stored"
               /\ chunk_data[w].data = <<>>
               /\ \A v \in DOMAIN chunk_data \ {w} : chunk_data'[v] = chunk_data[v]
       /\ \A w \in DOMAIN wstate :
            wstate[w] \in {"stored", "ok", "err", "panic"} =>
               wstate'[w] \notin {"spawned", "reading"}
       /\ merged' # merged =>
            /\ merged' = merged + 1
            /\ joined >= merged'
            /\ wstate[merged'] \in Finished
            /\ wstate' = wstate
            /\ chunk_data' = chunk_data]_vars

\* both workers have stored different bytes, both were joined, and the merge
\* has read the first slot and not yet the second
C25_Witness ==
    /\ mode = "parallel"
    /\ threads = 2 /\ joined = 2
    /\ merged = 1 /\ pc = "merging"
    /\ chunk_data[1].data # <<>> /\ chunk_data[2].data # <<>>
    /\ chunk_data[1].data # chunk_data[2].data


ExpectedStatus == IF resume_from # None THEN 206 ELSE 200

\* C26: until download_single_threaded has its response the output file is as
\* it was; the step that opens the file is taken only on a response whose
\* status is exactly 200 (fresh) or 206 (resumed), and then a resumed transfer
\* keeps the existing bytes while a fresh one truncates; on any other status,
\* or when the request cannot be sent, the step returns an error and leaves
\* the file as it was; the copy loop only appends.
C26_SingleStatusGate ==
    [][/\ pc = "single_send" => disk = disk0
       /\ (pc = "single_send" /\ pc' = "streaming") =>
            /\ single_status' = ExpectedStatus
            /\ IF resume_from # None
               THEN disk.exists /\ disk' = disk
               ELSE disk' = FileOf(<<>>)
       /\ (pc = "single_send" /\ pc' # pc /\ single_status' # ExpectedStatus) =>
            /\ pc' = "done" /\ result' = "err"
            /\ error'.kind \in {"transport", "http", "unexpected_status"}
            /\ disk' = disk
       /\ pc = "streaming" =>
            /\ Len(disk'.data) >= Len(disk.data)
            /\ SubSeq(disk'.data, 1, Len(disk.data)) = disk.data]_vars

\* a resumed transfer whose ranged GET was answered 200: an error, with the
\* partial file left as it was
C26_Witness ==
    /\ mode = "single"
    /\ resume_from # None
    /\ single_status = 200
    /\ pc = "done" /\ result = "err"
    /\ error = UnexpectedStatus(200)
    /\ disk = disk0 /\ Len(disk.data) > 0

====
